---------------------------- MODULE Spec2Model ----------------------------
(***************************************************************************)
(* Verification model of the zk-proof-system core:                         *)
(*   - core/src/recursion.rs : Accumulator, folding::RelaxedR1CS,          *)
(*                             folding::FoldingVerifier                    *)
(*   - core/src/circuits/dci.rs : DCIConfig / DCICircuit                   *)
(*                                                                         *)
(* Field elements (pasta Fp / Fq, 255-bit primes) are modelled in the      *)
(* residue ring modulo FieldModulus, a small modulus that TLC's integers   *)
(* can multiply without overflow.  The prime-order curve group of          *)
(* Accumulator<C> is modelled by its discrete logarithms, also modulo      *)
(* FieldModulus (identity = 0, P * r = P * r mod FieldModulus).            *)
(***************************************************************************)
EXTENDS Integers, Sequences, FiniteSets, TLC

VARIABLES
    lastFold,      \* the last call of RelaxedR1CS::fold: arguments and result
    lastVerify,    \* the last call of FoldingVerifier::verify
    instances,     \* FoldingVerifier.instances
    lastFoldAll,   \* the last call of FoldingVerifier::fold_all
    acc,           \* an Accumulator<C>
    accCalls,      \* number of accumulate calls made on acc
    lastAcc,       \* the last call of Accumulator::accumulate: pre-state, arguments
    dci,           \* the last DCICircuit operation: its arguments and result
    pore,          \* the last PoRECircuit operation: its arguments and result
    rv,            \* the last RecursiveVerifier operation: the circuit and the result
    wc,            \* a WitnessCalculator: cache, mutex, and the call in progress
    ffi,           \* the last FFI call: its arguments and result
    gate           \* the last evaluation of a RecursionConfig gate on one row

vars == <<lastFold, lastVerify, instances, lastFoldAll, acc, accCalls, lastAcc, dci, pore, rv, wc, ffi, gate>>

---------------------------------------------------------------------------
(* Field arithmetic                                                        *)

\* Size of the modelled residue ring standing for the field F.
FieldModulus == 10007

F_add(a, b) == (a + b) % FieldModulus
F_sub(a, b) == (a - b) % FieldModulus
F_mul(a, b) == (a * b) % FieldModulus
F_zero == 0 % FieldModulus
F_one == 1 % FieldModulus
F_from(n) == n % FieldModulus

---------------------------------------------------------------------------
(* folding::RelaxedR1CS                                                    *)

\* RelaxedR1CS::new(witness)
RelaxedR1CS_new(witness) ==
    [w |-> witness, e |-> F_zero, u |-> F_one, comm_w |-> F_zero, comm_e |-> F_zero]

\* self.w.iter().zip(&other.w).map(|(a, b)| *a + r * b).collect():
\* zip stops at the end of the shorter vector.
RECURSIVE zip_map(_, _, _)
zip_map(a, b, r) ==
    IF a = <<>> \/ b = <<>> THEN <<>>
    ELSE <<F_add(Head(a), F_mul(r, Head(b)))>> \o zip_map(Tail(a), Tail(b), r)

\* A slip of fold: the challenge is not applied to the scaling scalar.
fold_drop_r(self, other, r) ==
    [w |-> zip_map(self.w, other.w, r),
     e |-> F_add(self.e, F_mul(r, other.e)),
     u |-> F_add(self.u, other.u),
     comm_w |-> F_add(self.comm_w, F_mul(r, other.comm_w)),
     comm_e |-> F_add(self.comm_e, F_mul(r, other.comm_e))]

\* RelaxedR1CS::fold(&self, other, r)
fold(self, other, r) ==
    [w |-> zip_map(self.w, other.w, r),
     e |-> F_add(self.e, F_mul(r, other.e)),
     u |-> F_add(self.u, F_mul(r, other.u)),
     comm_w |-> F_add(self.comm_w, F_mul(r, other.comm_w)),
     comm_e |-> F_add(self.comm_e, F_mul(r, other.comm_e))]

\* FoldingVerifier::verify(&self, proof): the body is the constant true.
verify(proof) == TRUE

---------------------------------------------------------------------------
(* Relaxed R1CS satisfiability (the relation fold is documented to         *)
(* preserve).  The source holds no matrices; the relation is the one of    *)
(* the data model: (A.z) o (B.z) = u.(C.z) + e with z = (w, u, x).          *)
(* RelaxedR1CS carries one error element e, so the system has one row.     *)

\* The fixed system: one constraint  w1 * w2 = w3  over z = (w1, w2, w3, u, x).
R1CS_A == <<1, 0, 0, 0, 0>>
R1CS_B == <<0, 1, 0, 0, 0>>
R1CS_C == <<0, 0, 1, 0, 0>>
\* The fixed public input x.
R1CS_x == <<1>>

RECURSIVE Dot(_, _)
Dot(row, z) ==
    IF row = <<>> \/ z = <<>> THEN F_zero
    ELSE F_add(F_mul(Head(row), Head(z)), Dot(Tail(row), Tail(z)))

Satisfies(R) ==
    LET z == R.w \o <<R.u>> \o R1CS_x
    IN  /\ Len(z) = Len(R1CS_A)
        /\ F_mul(Dot(R1CS_A, z), Dot(R1CS_B, z))
             = F_add(F_mul(R.u, Dot(R1CS_C, z)), R.e)


---------------------------------------------------------------------------
(* folding::FoldingVerifier                                                *)

\* usize arithmetic wraps modulo 2^64 in a release build; the model keeps
\* the wrap-around with a smaller modulus, above every modelled length.
UsizeModulus == 65536

\* FoldingVerifier::new()
FoldingVerifier_new == <<>>

\* FoldingVerifier::add_instance(&mut self, instance)
add_instance(insts, instance) == Append(insts, instance)

\* for (instance, &r) in self.instances[1..].iter().zip(challenges)
\*     { result = result.fold(instance, r); }
RECURSIVE fold_loop(_, _, _)
fold_loop(result, rest, challenges) ==
    IF rest = <<>> \/ challenges = <<>> THEN result
    ELSE fold_loop(fold(result, Head(rest), Head(challenges)),
                   Tail(rest), Tail(challenges))

Panicked(insts) == [status |-> "panic", value |-> RelaxedR1CS_new(<<>>), instances |-> insts]

\* A slip of fold_all: the length assertion is left out.
fold_all_no_assert(insts, challenges, debug) ==
    IF Len(insts) = 0 THEN Panicked(insts)
    ELSE [status |-> "ok",
          value |-> fold_loop(insts[1], Tail(insts), challenges),
          instances |-> insts]

\* FoldingVerifier::fold_all(&self, challenges).  debug = a build with
\* overflow checks, where len() - 1 on an empty vector panics; otherwise
\* the subtraction wraps.  The result carries self.instances as the call
\* leaves it.
fold_all(insts, challenges, debug) ==
    IF Len(insts) = 0 /\ debug THEN Panicked(insts)
    ELSE IF Len(challenges) # (Len(insts) - 1) % UsizeModulus THEN Panicked(insts)
    ELSE IF Len(insts) = 0 THEN Panicked(insts)   \* self.instances[0]
    ELSE [status |-> "ok",
          value |-> fold_loop(insts[1], Tail(insts), challenges),
          instances |-> insts]

---------------------------------------------------------------------------
(* Accumulator<C>                                                          *)

\* Accumulator::new()
Accumulator_new ==
    [commitment |-> F_zero, challenge |-> F_zero, acc_vec |-> <<>>, proof_count |-> 0]

\* A slip of accumulate: the challenge is not recorded in acc_vec.
accumulate_no_push(self, proof_commitment, challenge) ==
    [commitment |-> F_add(self.commitment, F_mul(proof_commitment, challenge)),
     challenge |-> F_add(self.challenge, challenge),
     acc_vec |-> self.acc_vec,
     proof_count |-> self.proof_count + 1]

\* A slip of accumulate: the proof commitment is added without its challenge.
accumulate_unscaled(self, proof_commitment, challenge) ==
    [commitment |-> F_add(self.commitment, proof_commitment),
     challenge |-> F_add(self.challenge, challenge),
     acc_vec |-> Append(self.acc_vec, challenge),
     proof_count |-> self.proof_count + 1]

\* A slip of accumulate: the running commitment is rescaled by each new
\* challenge (a Horner step), which makes the result depend on call order.
accumulate_rescaled(self, proof_commitment, challenge) ==
    [commitment |-> F_add(F_mul(self.commitment, challenge), proof_commitment),
     challenge |-> F_add(self.challenge, challenge),
     acc_vec |-> Append(self.acc_vec, challenge),
     proof_count |-> self.proof_count + 1]

\* Accumulator::accumulate(&mut self, proof_commitment, challenge)
accumulate(self, proof_commitment, challenge) ==
    [commitment |-> F_add(self.commitment, F_mul(proof_commitment, challenge)),
     challenge |-> F_add(self.challenge, challenge),
     acc_vec |-> Append(self.acc_vec, challenge),
     proof_count |-> self.proof_count + 1]

---------------------------------------------------------------------------
(* circuit::Value<F>                                                       *)

Known(x) == [known |-> TRUE, v |-> x]
Unknown == [known |-> FALSE, v |-> 0]

---------------------------------------------------------------------------
(* DCIConfig: columns and constraints                                      *)

\* pub advice: [Column<Advice>; 12]
NumAdviceDCI == 12
\* Length of F::Repr, the little-endian byte form returned by to_repr().
ReprLen == 32
\* Number of 8-bit chunks of the balance decomposition: (0..8), bytes[..8].
NumChunks == 8
\* Entries of the 8-bit range table: for value in 0..256.
RangeTableSize == 256

\* self.advice[i] on the fixed-size array: an index beyond it panics.
AdviceIndexPanics(i) == i >= NumAdviceDCI

\* The advice indices queried, in order, by configure_merkle_verification,
\* configure_nullifier_checking and configure_balance_proofs.
ConfigureQueries ==
    <<0, 1, 2, 3>> \o <<4>> \o <<5>>
    \o [i \in 1..NumChunks |-> 6 + (i - 1)]      \* gate: advice[6 + i]
    \o [i \in 1..NumChunks |-> 6 + (i - 1)]      \* lookups: advice[6 + i]

\* DCICircuit::configure(cs)
configure ==
    IF \E k \in 1..Len(ConfigureQueries) : AdviceIndexPanics(ConfigureQueries[k])
    THEN "panic" ELSE "ok"

---------------------------------------------------------------------------
(* Layouter: regions are placed by the simple floor planner, each at the   *)
(* first row where all of its columns (selectors included) are free.       *)
(* A layout holds                                                          *)
(*   next    : advice index -> first free row                              *)
(*   nextSel : selector -> first free row                                  *)
(*   cells   : assigned advice cells [col, row, val], col # 5              *)
(*   wide    : assigned cells of advice[5], the balance, [row, val], val   *)
(*             the full-width element as its little-endian bytes           *)
(*   sels    : enabled selectors [sel, row]                                *)

Selectors == {"s_merkle", "s_nullifier", "s_balance"}
AdviceColumns == 0..(NumAdviceDCI - 1)

SetMax(S) == CHOOSE m \in S : \A x \in S : x <= m

EmptyLayout ==
    [next |-> [c \in AdviceColumns |-> 0], nextSel |-> [c \in Selectors |-> 0],
     cells |-> {}, wide |-> {}, sels |-> {}]

\* The first row where every column of the region is free.
RegionStart(L, sels, cols) ==
    SetMax({0} \cup {L.nextSel[c] : c \in sels} \cup {L.next[c] : c \in cols})

\* layouter.assign_region for a one-row region over the advice columns cols
\* that enables the selectors sels at offset 0 and assigns the advice cells
\* assigns (<<index, value>>) at offset 0.
AssignRegion(L, sels, cols, assigns) ==
    LET row == RegionStart(L, sels, cols)
    IN  [L EXCEPT !.next = [c \in AdviceColumns |-> IF c \in cols THEN row + 1 ELSE @[c]],
                  !.nextSel = [c \in Selectors |-> IF c \in sels THEN row + 1 ELSE @[c]],
                  !.cells = @ \cup {[col |-> a[1], row |-> row, val |-> a[2]] : a \in assigns},
                  !.sels = @ \cup {[sel |-> c, row |-> row] : c \in sels}]

Region(L, sels, assigns) == AssignRegion(L, sels, {a[1] : a \in assigns}, assigns)

\* A slip of PoseidonChip::hash: the output cell copies input[0] and the
\* second input (the sibling) is dropped.
hash_first_input(L, in0, in1) == Region(L, {}, {<<0, in0>>})

\* PoseidonChip::hash: a region "poseidon hash" assigning state[0] = advice[0]
\* at offset 0 with input[0] + input[1]; no selector is enabled.
hash(L, in0, in1) == Region(L, {}, {<<0, F_add(in0, in1)>>})

\* The value of an advice cell; a cell never assigned holds zero.
Cell(L, col, row) ==
    IF \E c \in L.cells : c.col = col /\ c.row = row
    THEN (CHOOSE c \in L.cells : c.col = col /\ c.row = row).val
    ELSE F_zero

Rows(L) ==
    0..SetMax({0} \cup {L.nextSel[c] : c \in Selectors} \cup {L.next[c] : c \in AdviceColumns})

Sel(L, sel, row) == IF [sel |-> sel, row |-> row] \in L.sels THEN 1 ELSE 0

---------------------------------------------------------------------------
(* DCICircuit::synthesize, against a layouter that evaluates the witness   *)
(* (a prover): assigning Value::unknown() is Error::Synthesis, and `?`     *)
(* returns at the first error.                                             *)
(* A synthesis state holds outcome ("ok", "synthesis_error", "panic"), the *)
(* layout L, current_hash and the hash cells produced so far.              *)

\* layouter.assign_table "8-bit range table": for value in 0..256
range_table_cells == {F_from(value) : value \in 0..(RangeTableSize - 1)}

\* synthesize assigns no cell of nullifier_table.
nullifier_table_cells == {}

\* Region "merkle tree verification": s_merkle at offset 0, leaf in advice[0].
merkle_region(circuit) ==
    IF ~circuit.leaf.known
    THEN [outcome |-> "synthesis_error", L |-> EmptyLayout, current_hash |-> 0, hashes |-> <<>>]
    ELSE [outcome |-> "ok",
          L |-> Region(EmptyLayout, {"s_merkle"}, {<<0, circuit.leaf.v>>}),
          current_hash |-> circuit.leaf.v,
          hashes |-> <<>>]

\* Region "merkle level i": s_merkle at offset 0, path element in advice[1],
\* direction in advice[2], then poseidon_chip.hash([current_hash, path_cell]).
merkle_level(S, path_elem, direction) ==
    IF ~path_elem.known \/ ~direction.known
    THEN [S EXCEPT !.outcome = "synthesis_error"]
    ELSE LET L1 == Region(S.L, {"s_merkle"}, {<<1, path_elem.v>>, <<2, direction.v>>})
             L2 == hash(L1, S.current_hash, path_elem.v)
             h == F_add(S.current_hash, path_elem.v)
         IN  [S EXCEPT !.L = L2, !.current_hash = h, !.hashes = Append(@, h)]

\* for (i, (path_elem, direction)) in
\*     self.merkle_path.iter().zip(self.path_directions.iter()).enumerate()
RECURSIVE merkle_levels(_, _, _)
merkle_levels(S, path, dirs) ==
    IF S.outcome # "ok" \/ path = <<>> \/ dirs = <<>> THEN S
    ELSE merkle_levels(merkle_level(S, Head(path), Head(dirs)), Tail(path), Tail(dirs))

\* Region "nullifier generation": s_nullifier at offset 0, nullifier in advice[4].
nullifier_region(S, circuit) ==
    IF S.outcome # "ok" THEN S
    ELSE IF ~circuit.nullifier.known THEN [S EXCEPT !.outcome = "synthesis_error"]
    ELSE [S EXCEPT !.L = Region(S.L, {"s_nullifier"}, {<<4, circuit.nullifier.v>>})]

\* Region "balance range proof": s_balance at offset 0, balance in advice[5],
\* then for (i, byte) in b.to_repr().as_ref()[..8]: advice[6 + i] = byte.
\* The byte loop stops with a panic at the first index beyond the array.
balance_region(S, circuit) ==
    IF S.outcome # "ok" THEN S
    ELSE IF ~circuit.balance.known THEN [S EXCEPT !.outcome = "synthesis_error"]
    ELSE LET bytes == SubSeq(circuit.balance.v, 1, NumChunks)
             done == {i \in 0..(NumChunks - 1) :
                          \A j \in 0..i : ~AdviceIndexPanics(6 + j)}
             assigns == {<<6 + i, F_from(bytes[i + 1])>> : i \in done}
             cols == {5} \cup {a[1] : a \in assigns}
             row == RegionStart(S.L, {"s_balance"}, cols)
             L1 == AssignRegion(S.L, {"s_balance"}, cols, assigns)
             L2 == [L1 EXCEPT !.wide = @ \cup {[row |-> row, val |-> circuit.balance.v]}]
         IN  [S EXCEPT !.L = L2,
                       !.outcome = IF Cardinality(done) = NumChunks THEN "ok" ELSE "panic"]

\* DCICircuit::synthesize(&self, config, layouter)
synthesize(circuit) ==
    LET S == balance_region(
                 nullifier_region(
                     merkle_levels(merkle_region(circuit),
                                   circuit.merkle_path, circuit.path_directions),
                     circuit),
                 circuit)
    IN  [outcome |-> S.outcome, L |-> S.L, hashes |-> S.hashes,
         range_table |-> range_table_cells,
         nullifier_table |-> nullifier_table_cells,
         instance_constraints |-> {}]

---------------------------------------------------------------------------
(* The constraint system declared by DCIConfig, evaluated on a layout.     *)
(* A gate holds when selector * polynomial is zero on every row; a lookup  *)
(* holds when selector * input is an entry of its table on every row.      *)

\* Gate "merkle path verification": s * (hash_output - (left + right))
merkle_gate(L, row) ==
    LET leaf == Cell(L, 0, row)
        path_element == Cell(L, 1, row)
        direction == Cell(L, 2, row)
        hash_output == Cell(L, 3, row)
        left == F_add(F_mul(leaf, F_sub(F_one, direction)), F_mul(path_element, direction))
        right == F_add(F_mul(path_element, F_sub(F_one, direction)), F_mul(leaf, direction))
    IN  F_mul(Sel(L, "s_merkle", row), F_sub(hash_output, F_add(left, right)))

MerkleGateHolds(L) == \A row \in Rows(L) : merkle_gate(L, row) = F_zero

\* The entries of a table column: a column with no assigned cell is zero on
\* every row; an assigned one is padded with its first entry.
TableValues(assigned) == IF assigned = {} THEN {F_zero} ELSE assigned

\* Lookup "nullifier check": (s * nullifier, nullifier_table)
nullifier_lookup(L, row) == F_mul(Sel(L, "s_nullifier", row), Cell(L, 4, row))

NullifierLookupHolds(L, table) ==
    \A row \in Rows(L) : nullifier_lookup(L, row) \in TableValues(table)

\* F::from(1u64 << (8 * i)): the chunks are digits in base 2^8.
ChunkBase == 2^8

ZeroRepr == [k \in 1..ReprLen |-> 0]

\* The little-endian bytes of the sum of digits[k] * ChunkBase^(k-1).
RECURSIVE Carry(_, _)
Carry(digits, c) ==
    IF digits = <<>> THEN <<>>
    ELSE <<(Head(digits) + c) % ChunkBase>>
         \o Carry(Tail(digits), (Head(digits) + c) \div ChunkBase)

\* reconstructed = fold over chunks of acc + chunk * 2^(8i), chunk i = advice[6 + i]
reconstructed(L, row) ==
    Carry([k \in 1..ReprLen |-> IF k <= NumChunks THEN Cell(L, 6 + (k - 1), row) ELSE 0], 0)

Wide(L, row) ==
    IF \E c \in L.wide : c.row = row
    THEN (CHOOSE c \in L.wide : c.row = row).val
    ELSE ZeroRepr

\* Gate "balance range proof": s * (balance - reconstructed)
BalanceGateHolds(L) ==
    \A row \in Rows(L) :
        Sel(L, "s_balance", row) = 1 => Wide(L, row) = reconstructed(L, row)

\* Lookups "range check chunk i": (s * chunk, range_table), i in 0..8
ChunkLookupsHold(L, table) ==
    \A row \in Rows(L) : \A i \in 0..(NumChunks - 1) :
        F_mul(Sel(L, "s_balance", row), Cell(L, 6 + i, row)) \in TableValues(table)

\* Every gate and lookup of the circuit on the synthesized assignment.
ConstraintsHold(S) ==
    /\ MerkleGateHolds(S.L)
    /\ NullifierLookupHolds(S.L, S.nullifier_table)
    /\ BalanceGateHolds(S.L)
    /\ ChunkLookupsHold(S.L, S.range_table)

\* MockProver::run(k, &circuit, instance) followed by verify(): configure,
\* synthesize, then the check of the constraints.  The instance columns are
\* tied to no cell (instance_constraints is empty), so they are not read.
mock_prover(circuit, instance) ==
    IF configure = "panic" THEN "panic"
    ELSE LET S == synthesize(circuit)
         IN  IF S.outcome = "panic" THEN "panic"
             ELSE IF S.outcome = "synthesis_error" THEN "error"
             ELSE IF ConstraintsHold(S) THEN "valid" ELSE "invalid"

---------------------------------------------------------------------------
(* Inputs                                                                  *)

\* Largest number of instances added to a FoldingVerifier.
MaxInstances == 3
\* Largest number of challenges passed to fold_all.
MaxChallenges == 3
\* Largest number of accumulate calls on one Accumulator.
MaxAccumulate == 4

SeqsUpTo(S, n) == UNION {[1..k -> S] : k \in 0..n}

Witnesses ==
    {<<>>, <<1, 2>>, <<1, 2, 3>>, <<4, 5, 6>>, <<1, 2, 2>>, <<2, 1, 2>>,
     <<FieldModulus - 1, 3, 0>>}

\* Instances as RelaxedR1CS::new gives them, and relaxed ones (all fields are pub).
InstancePool ==
    {RelaxedR1CS_new(w) : w \in Witnesses}
    \cup [w : {<<1, 2>>, <<1, 2, 3>>, <<2, 1, 2>>}, e : {0, 1, FieldModulus - 1},
          u : {1, 2}, comm_w : {0, 3}, comm_e : {0, 5}]

Challenges == {0, 1, 7, FieldModulus - 1}

VerifierPool ==
    {RelaxedR1CS_new(<<1, 2, 3>>), RelaxedR1CS_new(<<1, 2>>),
     [w |-> <<2, 1, 2>>, e |-> 1, u |-> 2, comm_w |-> 3, comm_e |-> 5]}

ChallengeSeqs == SeqsUpTo({1, 7}, MaxChallenges)

Commitments == {1, 5}
AccChallenges == {0, 1, 7}

NoInstance == RelaxedR1CS_new(<<>>)

\* Default for DCICircuit: vec![Value::unknown(); 20] for path and directions.
Depth == 20

UnknownVec == [i \in 1..Depth |-> Unknown]

\* Fp::from(0xDEADBEEF), reduced into the modelled ring.
DEADBEEF == F_add(F_mul(F_from(57005), F_from(65536)), F_from(48879))

\* Balances as the bytes of to_repr(): 0, 1000, u64::MAX and u64::MAX + 1.
BalanceOf1000 == [k \in 1..ReprLen |-> IF k = 1 THEN 232 ELSE IF k = 2 THEN 3 ELSE 0]
BalanceU64Max == [k \in 1..ReprLen |-> IF k <= 8 THEN 255 ELSE 0]
BalanceU64MaxPlus1 == [k \in 1..ReprLen |-> IF k = 9 THEN 1 ELSE 0]

\* v < 2^64, on the little-endian bytes of v
InU64Range(repr) == \A k \in 9..ReprLen : repr[k] = 0

DCICircuits ==
    [merkle_path : {UnknownVec, [i \in 1..Depth |-> Known(0)],
                    [i \in 1..Depth |-> Known(F_from(i - 1))],
                    <<Known(5), Known(7)>>},
     leaf : {Unknown, Known(0), Known(42)},
     path_directions : {UnknownVec, [i \in 1..Depth |-> Known(0)],
                        [i \in 1..Depth |-> Known((i - 1) % 2)],
                        [i \in 1..Depth |-> Known(IF i = 1 THEN 2 ELSE 0)],
                        <<Known(0), Known(1), Known(2)>>},
     nullifier : {Unknown, Known(0), Known(123), Known(DEADBEEF)},
     balance : {Unknown, Known(ZeroRepr), Known(BalanceOf1000), Known(BalanceU64Max),
                Known(BalanceU64MaxPlus1)},
     public_inputs : {<<>>}]

\* Row 0 of instance column 0 as passed to MockProver::run (vec![] in the tests).
DCIInstances == {<<>>, <<0>>, <<5>>, <<232>>}

---------------------------------------------------------------------------
(* State machine                                                           *)

Init ==
    /\ lastFold = [called |-> FALSE, a |-> NoInstance, b |-> NoInstance, r |-> 0,
                   out |-> NoInstance]
    /\ lastVerify = [called |-> FALSE, proof |-> NoInstance, result |-> FALSE]
    /\ instances = FoldingVerifier_new
    /\ lastFoldAll = [called |-> FALSE, challenges |-> <<>>, before |-> <<>>,
                      result |-> Panicked(<<>>)]
    /\ acc = Accumulator_new
    /\ accCalls = 0
    /\ lastAcc = [called |-> FALSE, pre |-> Accumulator_new, proof_commitment |-> 0,
                  challenge |-> 0]
    /\ dci = [op |-> "none"]
    /\ pore = [op |-> "none"]
    /\ rv = [op |-> "none"]
    /\ wc = [kind |-> "none"]
    /\ ffi = [op |-> "none"]
    /\ gate = [op |-> "none"]

\* The fold under test: two instances and a challenge drawn from the pools.
InitFold ==
    /\ lastFold \in [called : {FALSE}, a : InstancePool, b : InstancePool, r : Challenges,
                     out : {NoInstance}]
    /\ lastVerify = [called |-> FALSE, proof |-> NoInstance, result |-> FALSE]
    /\ instances = FoldingVerifier_new
    /\ lastFoldAll = [called |-> FALSE, challenges |-> <<>>, before |-> <<>>,
                      result |-> Panicked(<<>>)]
    /\ acc = Accumulator_new
    /\ accCalls = 0
    /\ lastAcc = [called |-> FALSE, pre |-> Accumulator_new, proof_commitment |-> 0,
                  challenge |-> 0]
    /\ dci = [op |-> "none"]
    /\ pore = [op |-> "none"]
    /\ rv = [op |-> "none"]
    /\ wc = [kind |-> "none"]
    /\ ffi = [op |-> "none"]
    /\ gate = [op |-> "none"]

\* instance1.fold(&instance2, r)
FoldCall ==
    /\ ~lastFold.called
    /\ lastFold' = [lastFold EXCEPT !.called = TRUE,
                                    !.out = fold(lastFold.a, lastFold.b, lastFold.r)]
    /\ UNCHANGED <<lastVerify, instances, lastFoldAll, acc, accCalls, lastAcc, dci, pore, rv, wc, ffi, gate>>

\* verifier.verify(&folded) on the instance the fold returned
VerifyCall ==
    /\ lastFold.called
    /\ ~lastVerify.called
    /\ lastVerify' = [called |-> TRUE, proof |-> lastFold.out,
                      result |-> verify(lastFold.out)]
    /\ UNCHANGED <<lastFold, instances, lastFoldAll, acc, accCalls, lastAcc, dci, pore, rv, wc, ffi, gate>>

NextFold == FoldCall \/ VerifyCall

SpecFold == InitFold /\ [][NextFold]_vars

\* verifier.add_instance(instance)
AddInstanceCall(instance) ==
    /\ Len(instances) < MaxInstances
    /\ instances' = add_instance(instances, instance)
    /\ UNCHANGED <<lastFold, lastVerify, lastFoldAll, acc, accCalls, lastAcc, dci, pore, rv, wc, ffi, gate>>

\* verifier.fold_all(&challenges)
FoldAllCall(challenges, debug) ==
    LET res == fold_all(instances, challenges, debug)
    IN  /\ instances' = res.instances
        /\ lastFoldAll' = [called |-> TRUE, challenges |-> challenges,
                           before |-> instances, result |-> res]
        /\ UNCHANGED <<lastFold, lastVerify, acc, accCalls, lastAcc, dci, pore, rv, wc, ffi, gate>>

NextVerifier ==
    \/ \E instance \in VerifierPool : AddInstanceCall(instance)
    \/ \E challenges \in ChallengeSeqs, debug \in BOOLEAN : FoldAllCall(challenges, debug)

SpecVerifier == Init /\ [][NextVerifier]_vars

\* acc.accumulate(proof_commitment, challenge)
AccumulateCall(proof_commitment, challenge) ==
    /\ accCalls < MaxAccumulate
    /\ acc' = accumulate(acc, proof_commitment, challenge)
    /\ accCalls' = accCalls + 1
    /\ lastAcc' = [called |-> TRUE, pre |-> acc, proof_commitment |-> proof_commitment,
                   challenge |-> challenge]
    /\ UNCHANGED <<lastFold, lastVerify, instances, lastFoldAll, dci, pore, rv, wc, ffi, gate>>

NextAcc ==
    \E proof_commitment \in Commitments, challenge \in AccChallenges :
        AccumulateCall(proof_commitment, challenge)

SpecAcc == Init /\ [][NextAcc]_vars

---------------------------------------------------------------------------
(* Properties of folding                                                   *)

\* C1: whenever fold is applied to two instances that both satisfy the
\* relaxed R1CS relation (for the fixed system and public input), with any
\* challenge r, the instance it returns satisfies that relation too.
C1_FoldPreservesSatisfiability ==
    (lastFold.called /\ Satisfies(lastFold.a) /\ Satisfies(lastFold.b))
        => Satisfies(lastFold.out)

\* C2: for witness vectors of equal length, the folded instance has
\* w[i] = R1.w[i] + r * R2.w[i] at every index, e = R1.e + r * R2.e,
\* u = R1.u + r * R2.u, comm_w = R1.comm_w + r * R2.comm_w and
\* comm_e = R1.comm_e + r * R2.comm_e in the field; two strict instances
\* with w1 = [1,2,3], w2 = [4,5,6] and r = 7 give w = [29,37,45] and u = 8.
C2_FoldFormula ==
    LET R1 == lastFold.a
        R2 == lastFold.b
        r == lastFold.r
        R == lastFold.out
    IN  (lastFold.called /\ Len(R1.w) = Len(R2.w)) =>
          /\ Len(R.w) = Len(R1.w)
          /\ \A i \in 1..Len(R1.w) : R.w[i] = (R1.w[i] + r * R2.w[i]) % FieldModulus
          /\ R.e = (R1.e + r * R2.e) % FieldModulus
          /\ R.u = (R1.u + r * R2.u) % FieldModulus
          /\ R.comm_w = (R1.comm_w + r * R2.comm_w) % FieldModulus
          /\ R.comm_e = (R1.comm_e + r * R2.comm_e) % FieldModulus
          /\ (R1 = RelaxedR1CS_new(<<1, 2, 3>>) /\ R2 = RelaxedR1CS_new(<<4, 5, 6>>) /\ r = 7)
                => (R.w = <<29, 37, 45>> /\ R.u = 8)

C2_Witness ==
    /\ lastFold.called
    /\ lastFold.a = RelaxedR1CS_new(<<1, 2, 3>>)
    /\ lastFold.b = RelaxedR1CS_new(<<4, 5, 6>>)
    /\ lastFold.r = 7
    /\ lastFold.out.w = <<29, 37, 45>>

\* C3: verify returns true only for an instance that satisfies the relaxed
\* R1CS relation; for every instance that does not, it returns false.
C3_VerifyOnlySatisfied ==
    (lastVerify.called /\ lastVerify.result) => Satisfies(lastVerify.proof)

---------------------------------------------------------------------------
(* Properties of FoldingVerifier::fold_all                                 *)

\* fold(...fold(fold(I0, I1, c0), I2, c1)..., Ik, c(k-1)), by index
RECURSIVE LeftFold(_, _, _)
LeftFold(I, c, k) ==
    IF k = 0 THEN I[1] ELSE fold(LeftFold(I, c, k - 1), I[k + 1], c[k])

\* C4: fold_all(challenges) returns a result exactly when the number of
\* challenges is the number of stored instances minus one (so at least one
\* instance is stored); the result is then the left-to-right fold of the
\* instances in the order they were added; for any other challenge count,
\* also with no instance stored, it fails without returning an instance;
\* in every case the stored instances are left unchanged.
C4_FoldAllContract ==
    LET I == lastFoldAll.before
        c == lastFoldAll.challenges
        res == lastFoldAll.result
    IN  lastFoldAll.called =>
          /\ (res.status = "ok") <=> (Len(I) >= 1 /\ Len(c) = Len(I) - 1)
          /\ res.status = "ok" => res.value = LeftFold(I, c, Len(c))
          /\ res.status # "ok" => res.status = "panic"
          /\ res.instances = I

C4_Witness ==
    /\ lastFoldAll.called
    /\ lastFoldAll.result.status = "ok"
    /\ Len(lastFoldAll.before) = 3
    /\ lastFoldAll.challenges = <<7, 1>>

---------------------------------------------------------------------------
(* Properties of Accumulator                                               *)

\* C5: Accumulator::new() is (identity, 0, [], 0), and accumulate(C, r) on
\* the state (Ca, chi, v, n) yields (Ca + r.C, chi + r, v with r appended
\* as its last element, n + 1), every earlier element of v unchanged.
C5_AccumulateUpdate ==
    LET pre == lastAcc.pre
        C == lastAcc.proof_commitment
        r == lastAcc.challenge
        n == Len(pre.acc_vec)
    IN  /\ ~lastAcc.called =>
              (acc.commitment = 0 /\ acc.challenge = 0 /\ acc.acc_vec = <<>>
               /\ acc.proof_count = 0)
        /\ lastAcc.called =>
              /\ acc.commitment = (pre.commitment + r * C) % FieldModulus
              /\ acc.challenge = (pre.challenge + r) % FieldModulus
              /\ Len(acc.acc_vec) = n + 1
              /\ acc.acc_vec[n + 1] = r
              /\ \A i \in 1..n : acc.acc_vec[i] = pre.acc_vec[i]
              /\ acc.proof_count = pre.proof_count + 1

C5_Witness ==
    /\ lastAcc.called
    /\ Len(lastAcc.pre.acc_vec) >= 2
    /\ lastAcc.challenge = 7
    /\ lastAcc.proof_commitment = 5
    /\ acc.acc_vec[Len(acc.acc_vec)] = 7

\* C6: after n calls of accumulate on a new accumulator, with any
\* commitments and challenges, proof_count = n and |acc_vec| = n.
C6_CountAndLength ==
    acc.proof_count = accCalls /\ Len(acc.acc_vec) = accCalls

C6_Witness == accCalls >= 3 /\ acc.proof_count = accCalls

---------------------------------------------------------------------------
(* DCI circuit: operations applied to a circuit drawn from DCICircuits     *)

InitDCI ==
    /\ dci \in [op : {"none"}, circuit : DCICircuits, instance : DCIInstances,
                result : {"none"}]
    /\ lastFold = [called |-> FALSE, a |-> NoInstance, b |-> NoInstance, r |-> 0,
                   out |-> NoInstance]
    /\ lastVerify = [called |-> FALSE, proof |-> NoInstance, result |-> FALSE]
    /\ instances = FoldingVerifier_new
    /\ lastFoldAll = [called |-> FALSE, challenges |-> <<>>, before |-> <<>>,
                      result |-> Panicked(<<>>)]
    /\ acc = Accumulator_new
    /\ accCalls = 0
    /\ lastAcc = [called |-> FALSE, pre |-> Accumulator_new, proof_commitment |-> 0,
                  challenge |-> 0]
    /\ pore = [op |-> "none"]
    /\ rv = [op |-> "none"]
    /\ wc = [kind |-> "none"]
    /\ ffi = [op |-> "none"]
    /\ gate = [op |-> "none"]

\* DCICircuit::configure(&mut cs)
ConfigureCall ==
    /\ dci.op = "none"
    /\ dci' = [dci EXCEPT !.op = "configure", !.result = configure]
    /\ UNCHANGED <<lastFold, lastVerify, instances, lastFoldAll, acc, accCalls, lastAcc, pore, rv, wc, ffi, gate>>

\* circuit.synthesize(config, layouter), config a DCIConfig as declared
SynthesizeCall ==
    /\ dci.op = "none"
    /\ dci' = [dci EXCEPT !.op = "synthesize", !.result = synthesize(dci.circuit).outcome]
    /\ UNCHANGED <<lastFold, lastVerify, instances, lastFoldAll, acc, accCalls, lastAcc, pore, rv, wc, ffi, gate>>

\* MockProver::run(k, &circuit, instance) and the check of the result
MockProverRun ==
    /\ dci.op = "none"
    /\ dci' = [dci EXCEPT !.op = "run", !.result = mock_prover(dci.circuit, dci.instance)]
    /\ UNCHANGED <<lastFold, lastVerify, instances, lastFoldAll, acc, accCalls, lastAcc, pore, rv, wc, ffi, gate>>

NextDCI == ConfigureCall \/ SynthesizeCall \/ MockProverRun

SpecDCI == InitDCI /\ [][NextDCI]_vars

---------------------------------------------------------------------------
(* Properties of the DCI circuit                                           *)

AllKnown(circuit) ==
    /\ circuit.leaf.known
    /\ \A i \in 1..Len(circuit.merkle_path) : circuit.merkle_path[i].known
    /\ \A i \in 1..Len(circuit.path_directions) : circuit.path_directions[i].known
    /\ circuit.nullifier.known
    /\ circuit.balance.known

\* The root the synthesis derives from the leaf and the Merkle path.
DerivedRoot(circuit) ==
    merkle_levels(merkle_region(circuit), circuit.merkle_path,
                  circuit.path_directions).current_hash

\* C7: a DCI witness (all values known, 20 levels) whose derived root
\* differs from the root declared in the instance column is rejected by
\* verification: the run ends Invalid.
C7_RootMismatchRejected ==
    (/\ dci.op = "run"
     /\ AllKnown(dci.circuit)
     /\ Len(dci.circuit.merkle_path) = Depth
     /\ Len(dci.circuit.path_directions) = Depth
     /\ dci.instance # <<>>
     /\ DerivedRoot(dci.circuit) # dci.instance[1])
        => dci.result = "invalid"

\* C8: for every DCI witness with a known leaf, 20 known siblings and 20
\* directions in {0,1}, the synthesized assignment satisfies the Merkle
\* gate on every row where s_merkle is enabled, and the circuit is accepted.
C8_MerkleWitnessAccepted ==
    (/\ dci.op = "run"
     /\ AllKnown(dci.circuit)
     /\ Len(dci.circuit.merkle_path) = Depth
     /\ Len(dci.circuit.path_directions) = Depth
     /\ \A i \in 1..Depth : dci.circuit.path_directions[i].v \in {0, 1})
        => /\ MerkleGateHolds(synthesize(dci.circuit).L)
           /\ dci.result = "valid"

\* C9: the circuit is accepted only if the nullifier is an entry of
\* nullifier_table, and a run whose nullifier is absent from the table
\* ends Invalid.
C9_NullifierAbsentInvalid ==
    (dci.op = "run" /\ AllKnown(dci.circuit)) =>
        /\ dci.result = "valid"
              => dci.circuit.nullifier.v \in TableValues(nullifier_table_cells)
        /\ dci.circuit.nullifier.v \notin TableValues(nullifier_table_cells)
              => dci.result = "invalid"

\* C10: for every balance below 2^64 the synthesized balance region
\* satisfies the reconstruction gate and the eight chunk lookups; for every
\* balance of 2^64 or more the circuit is not accepted.
C10_BalanceRange ==
    LET S == synthesize(dci.circuit)
    IN  /\ (/\ dci.op = "synthesize"
            /\ AllKnown(dci.circuit)
            /\ InU64Range(dci.circuit.balance.v))
              => /\ dci.result = "ok"
                 /\ BalanceGateHolds(S.L)
                 /\ ChunkLookupsHold(S.L, S.range_table)
        /\ (/\ dci.op = "run"
            /\ AllKnown(dci.circuit)
            /\ ~InU64Range(dci.circuit.balance.v))
              => dci.result # "valid"

\* C11: every Merkle direction is booleanity-checked: a witness in which a
\* direction cell on a row with s_merkle enabled holds a value outside
\* {0,1} does not satisfy the constraints of the Merkle rows, and the run
\* ends Invalid.
C11_DirectionBooleanity ==
    LET L == synthesize(dci.circuit).L
    IN  (/\ dci.op = "run"
         /\ AllKnown(dci.circuit)
         /\ \E row \in Rows(L) : /\ Sel(L, "s_merkle", row) = F_one
                                 /\ Cell(L, 2, row) \notin {0, 1})
            => /\ ~MerkleGateHolds(L)
               /\ dci.result = "invalid"

---------------------------------------------------------------------------
(* PoRE circuit (circuits/pore.rs)                                         *)

\* advice: [Column<Advice>; 10]
NumAdvicePoRE == 10
\* instance: [Column<Instance>; 3]
NumInstancePoRE == 3
\* for value in 0..256
PoRETableSize == 256

\* layouter.assign_table "8-bit range table"
pore_table_cells == {F_from(value) : value \in 0..(PoRETableSize - 1)}

\* The witnesses that the main region assigns: index i (from 0) with i < 10.
AssignedWitnesses(circuit) ==
    {i \in 0..(Len(circuit.witnesses) - 1) : i < NumAdvicePoRE}

\* PoRECircuit::synthesize against a prover's layouter: one region, "main
\* region", with s_add_mul enabled at offset 0 and witness i in advice[i] at
\* offset 0; s_range is enabled nowhere.  Then one copy constraint
\* advice[i] = instance[i] (row 0) for each public input of index i < 3.
PoRE_synthesize(circuit) ==
    LET idx == AssignedWitnesses(circuit)
        unknown == \E i \in idx : ~circuit.witnesses[i + 1].known
    IN  [outcome |-> IF unknown THEN "synthesis_error" ELSE "ok",
         advice |-> [c \in 0..(NumAdvicePoRE - 1) |->
                        IF c \in idx /\ circuit.witnesses[c + 1].known
                        THEN circuit.witnesses[c + 1].v ELSE F_zero],
         s_add_mul |-> {0},
         s_range |-> {},
         table |-> pore_table_cells,
         copies |-> IF unknown THEN {}
                    ELSE {i \in 0..(Len(circuit.public_inputs) - 1) : i < NumInstancePoRE}]

\* A variant of the gate that leaves d out.
add_mul_gate_without_d(S, row) ==
    LET s == IF row \in S.s_add_mul THEN F_one ELSE F_zero
        a == S.advice[0]
        b == S.advice[1]
        c == S.advice[2]
        out == S.advice[4]
    IN  F_mul(s, F_sub(out, F_mul(F_add(a, b), c)))

\* Gate "add_mul fusion" on row 0: s * (out - ((a + b) * c + d))
add_mul_gate(S, row) ==
    LET s == IF row \in S.s_add_mul THEN F_one ELSE F_zero
        a == S.advice[0]
        b == S.advice[1]
        c == S.advice[2]
        d == S.advice[3]
        out == S.advice[4]
    IN  F_mul(s, F_sub(out, F_add(F_mul(F_add(a, b), c), d)))

\* Lookup "8-bit range" on row 0: (s_range * value, table)
range_lookup(S, row) ==
    LET s_range == IF row \in S.s_range THEN F_one ELSE F_zero
        value == S.advice[0]
    IN  F_mul(s_range, value)

\* The copy constraints hold: advice[i] row 0 equals instance[i] row 0.
CopiesHold(S, instance) == \A i \in S.copies : S.advice[i] = instance[i + 1]

\* MockProver::run(k, &circuit, instance) and verify() for a PoRECircuit;
\* instance gives row 0 of the three instance columns.
PoRE_mock_prover(circuit, instance) ==
    LET S == PoRE_synthesize(circuit)
    IN  IF S.outcome = "synthesis_error" THEN "error"
        ELSE IF /\ add_mul_gate(S, 0) = F_zero
                /\ range_lookup(S, 0) \in TableValues(S.table)
                /\ CopiesHold(S, instance)
             THEN "valid" ELSE "invalid"

\* Inputs: the five cells of the gate; a single witness value; unknown,
\* empty and over-long witness vectors.
GateValues == {0, 2, 3, FieldModulus - 1}

GateWitnesses ==
    {<<Known(a), Known(b), Known(c), Known(d), Known(out)>> :
        a \in GateValues, b \in GateValues, c \in {0, 4, FieldModulus - 1}, d \in {0, 5},
        out \in {0, 25, 9, FieldModulus - 1}}

SingleWitnesses == {<<Known(F_from(v))>> : v \in {0, 1, 255, 256, 257, 1000}}

PoREWitnesses ==
    GateWitnesses \cup SingleWitnesses
        \cup {<<>>, <<Unknown>>, <<Known(2), Unknown>>,
              [i \in 1..(NumAdvicePoRE + 1) |-> IF i > NumAdvicePoRE THEN Unknown ELSE Known(1)]}

PoRECircuits ==
    [witnesses : PoREWitnesses, public_inputs : {<<>>, <<2>>, <<1, 1, 1>>, <<1, 1, 1, 1>>}]

PoREInstances == {<<0, 0, 0>>, <<1, 1, 1>>, <<2, 0, 0>>}

InitPoRE ==
    /\ pore \in [op : {"none"}, circuit : PoRECircuits, instance : PoREInstances,
                 result : {"none"}]
    /\ lastFold = [called |-> FALSE, a |-> NoInstance, b |-> NoInstance, r |-> 0,
                   out |-> NoInstance]
    /\ lastVerify = [called |-> FALSE, proof |-> NoInstance, result |-> FALSE]
    /\ instances = FoldingVerifier_new
    /\ lastFoldAll = [called |-> FALSE, challenges |-> <<>>, before |-> <<>>,
                      result |-> Panicked(<<>>)]
    /\ acc = Accumulator_new
    /\ accCalls = 0
    /\ lastAcc = [called |-> FALSE, pre |-> Accumulator_new, proof_commitment |-> 0,
                  challenge |-> 0]
    /\ dci = [op |-> "none"]
    /\ rv = [op |-> "none"]
    /\ wc = [kind |-> "none"]
    /\ ffi = [op |-> "none"]
    /\ gate = [op |-> "none"]

\* circuit.synthesize(config, layouter)
PoRESynthesizeCall ==
    /\ pore.op = "none"
    /\ pore' = [pore EXCEPT !.op = "synthesize",
                            !.result = PoRE_synthesize(pore.circuit).outcome]
    /\ UNCHANGED <<lastFold, lastVerify, instances, lastFoldAll, acc, accCalls, lastAcc, dci, rv, wc, ffi, gate>>

\* MockProver::run(k, &circuit, instance) and the check of the result
PoREMockProverRun ==
    /\ pore.op = "none"
    /\ pore' = [pore EXCEPT !.op = "run",
                            !.result = PoRE_mock_prover(pore.circuit, pore.instance)]
    /\ UNCHANGED <<lastFold, lastVerify, instances, lastFoldAll, acc, accCalls, lastAcc, dci, rv, wc, ffi, gate>>

NextPoRE == PoRESynthesizeCall \/ PoREMockProverRun

SpecPoRE == InitPoRE /\ [][NextPoRE]_vars

\* out = (a + b) * c + d in the field, on the first five witnesses
AddMulEquation(w) == w[5].v = F_add(F_mul(F_add(w[1].v, w[2].v), w[3].v), w[4].v)

C13_RangeLookup ==
    (/\ pore.op = "run"
     /\ Len(pore.circuit.witnesses) = 1
     /\ pore.circuit.witnesses[1].known
     /\ pore.circuit.public_inputs = <<>>)
        => (pore.result = "valid" <=> pore.circuit.witnesses[1].v \in 0..255)

---------------------------------------------------------------------------
(* RecursiveVerifier circuit (recursion.rs)                                *)

\* advice: [Column<Advice>; 15]
NumAdviceRV == 15
\* for i in 0..16 and self.proofs.len().min(16)
MaxBatch == 16
\* The constant of the endomorphism gate, reduced into the modelled ring.
zeta == 6349

\* Largest number of queued proofs.
MaxProofs == 17

RVSelectors == {"s_add", "s_mul", "s_endo", "s_acc"}

Min(a, b) == IF a <= b THEN a ELSE b

\* RecursiveVerifier::synthesize for a circuit with n = proofs.len() queued
\* proofs.  Region "verify proof i" enables s_add at offset 0 and assigns no
\* cell, so region i starts at the first row where s_add is free: row i.
\* Region "accumulation" enables s_acc at offset 0 and assigns advice[i] = i
\* for i in 0..min(n, 16); none of its columns is used by an earlier region,
\* so it starts at row 0.  Indexing advice[15] panics.
RV_synthesize(circuit) ==
    LET n == Len(circuit.proofs)
        verify_rows == 0..(n - 1)
        next_s_add == n
        indices == 0..(Min(n, MaxBatch) - 1)
        panics == \E i \in indices : i >= NumAdviceRV
        \* first free row of s_acc and of each advice column: 0
        acc_row == SetMax({0} \cup {0 : i \in indices})
    IN  [outcome |-> IF panics THEN "panic" ELSE "ok",
         sels |-> {[sel |-> "s_add", row |-> r] : r \in verify_rows}
                     \cup {[sel |-> "s_acc", row |-> acc_row]},
         cells |-> {[col |-> i, row |-> acc_row, val |-> F_from(i)] :
                        i \in {j \in indices : j < NumAdviceRV}},
         rows |-> 0..SetMax({acc_row, next_s_add})]

RVCell(S, col, row) ==
    IF \E c \in S.cells : c.col = col /\ c.row = row
    THEN (CHOOSE c \in S.cells : c.col = col /\ c.row = row).val
    ELSE F_zero

RVSel(S, sel, row) == IF [sel |-> sel, row |-> row] \in S.sels THEN F_one ELSE F_zero

\* A variant of the gate whose second polynomial leaves x2 out.
ec_point_addition_without_x2(S, row) ==
    LET s == RVSel(S, "s_add", row)
        x1 == RVCell(S, 0, row)
        y1 == RVCell(S, 1, row)
        x2 == RVCell(S, 2, row)
        y2 == RVCell(S, 3, row)
        x3 == RVCell(S, 4, row)
        y3 == RVCell(S, 5, row)
        lambda == RVCell(S, 6, row)
    IN  <<F_mul(s, F_sub(F_mul(lambda, F_sub(x2, x1)), F_sub(y2, y1))),
          F_mul(s, F_sub(x3, F_sub(F_mul(lambda, lambda), x1))),
          F_mul(s, F_sub(y3, F_sub(F_mul(lambda, F_sub(x1, x3)), y1)))>>

\* Gate "ec point addition": the three polynomials, each times s_add
ec_point_addition(S, row) ==
    LET s == RVSel(S, "s_add", row)
        x1 == RVCell(S, 0, row)
        y1 == RVCell(S, 1, row)
        x2 == RVCell(S, 2, row)
        y2 == RVCell(S, 3, row)
        x3 == RVCell(S, 4, row)
        y3 == RVCell(S, 5, row)
        lambda == RVCell(S, 6, row)
    IN  <<F_mul(s, F_sub(F_mul(lambda, F_sub(x2, x1)), F_sub(y2, y1))),
          F_mul(s, F_sub(x3, F_sub(F_sub(F_mul(lambda, lambda), x1), x2))),
          F_mul(s, F_sub(y3, F_sub(F_mul(lambda, F_sub(x1, x3)), y1)))>>

\* Gate "endomorphism": s_endo * (x_endo - x * zeta), s_endo * (y_endo - y)
endomorphism(S, row) ==
    LET s == RVSel(S, "s_endo", row)
        x == RVCell(S, 0, row)
        y == RVCell(S, 1, row)
        x_endo == RVCell(S, 2, row)
        y_endo == RVCell(S, 3, row)
    IN  <<F_mul(s, F_sub(x_endo, F_mul(x, F_from(zeta)))), F_mul(s, F_sub(y_endo, y))>>

RECURSIVE SumProducts(_, _, _)
SumProducts(S, row, i) ==
    IF i < 0 THEN F_zero
    ELSE F_add(F_mul(RVCell(S, i, row), RVCell(S, i + 1, row)), SumProducts(S, row, i - 1))

\* A variant of the gate with one polynomial: s_acc times the sum of the
\* products.
batch_verification_sum(S, row) ==
    <<F_mul(RVSel(S, "s_acc", row), SumProducts(S, row, NumAdviceRV - 2))>>

\* Gate "batch verification": for i in 0..16 with i < advice.len() - 1, the
\* polynomial s_acc * advice[i] * advice[i + 1]
batch_verification(S, row) ==
    LET s == RVSel(S, "s_acc", row)
    IN  [k \in 1..Cardinality({i \in 0..(MaxBatch - 1) : i < NumAdviceRV - 1}) |->
            F_mul(F_mul(s, RVCell(S, k - 1, row)), RVCell(S, k, row))]

AllZero(polys) == \A k \in 1..Len(polys) : polys[k] = F_zero

PointAdditionHolds(S) == \A row \in S.rows : AllZero(ec_point_addition(S, row))
BatchVerificationHolds(S) == \A row \in S.rows : AllZero(batch_verification(S, row))

RVConstraintsHold(S) ==
    /\ PointAdditionHolds(S)
    /\ \A row \in S.rows : AllZero(endomorphism(S, row))
    /\ BatchVerificationHolds(S)

\* MockProver::run(k, &circuit, vec![]) and assert_satisfied
RV_mock_prover(circuit) ==
    LET S == RV_synthesize(circuit)
    IN  IF S.outcome = "panic" THEN "panic"
        ELSE IF RVConstraintsHold(S) THEN "valid" ELSE "invalid"

RECURSIVE Accumulated(_)
\* An accumulator on which accumulate has been called k times.
Accumulated(k) == IF k = 0 THEN Accumulator_new ELSE accumulate(Accumulated(k - 1), 1, 7)

\* RecursiveVerifier values: default() with proofs pushed, the accumulator
\* (a public field) fresh or already used.
RVCircuits ==
    [proofs : {[i \in 1..n |-> Known(i - 1)] : n \in 0..MaxProofs},
     accumulator : {Accumulated(k) : k \in {0, 1, 2, 5}}]

InitRV ==
    /\ rv \in [op : {"none"}, circuit : RVCircuits, result : {"none"}]
    /\ lastFold = [called |-> FALSE, a |-> NoInstance, b |-> NoInstance, r |-> 0,
                   out |-> NoInstance]
    /\ lastVerify = [called |-> FALSE, proof |-> NoInstance, result |-> FALSE]
    /\ instances = FoldingVerifier_new
    /\ lastFoldAll = [called |-> FALSE, challenges |-> <<>>, before |-> <<>>,
                      result |-> Panicked(<<>>)]
    /\ acc = Accumulator_new
    /\ accCalls = 0
    /\ lastAcc = [called |-> FALSE, pre |-> Accumulator_new, proof_commitment |-> 0,
                  challenge |-> 0]
    /\ dci = [op |-> "none"]
    /\ pore = [op |-> "none"]
    /\ wc = [kind |-> "none"]
    /\ ffi = [op |-> "none"]
    /\ gate = [op |-> "none"]

\* circuit.synthesize(config, layouter): &self, the circuit is not changed
RVSynthesizeCall ==
    /\ rv.op = "none"
    /\ rv' = [rv EXCEPT !.op = "synthesize", !.result = RV_synthesize(rv.circuit).outcome]
    /\ UNCHANGED <<lastFold, lastVerify, instances, lastFoldAll, acc, accCalls, lastAcc, dci, pore, wc, ffi, gate>>

\* MockProver::run(k, &circuit, vec![]) and the check of the result
RVMockProverRun ==
    /\ rv.op = "none"
    /\ rv' = [rv EXCEPT !.op = "run", !.result = RV_mock_prover(rv.circuit)]
    /\ UNCHANGED <<lastFold, lastVerify, instances, lastFoldAll, acc, accCalls, lastAcc, dci, pore, wc, ffi, gate>>

NextRV == RVSynthesizeCall \/ RVMockProverRun

SpecRV == InitRV /\ [][NextRV]_vars

\* C14: for every n in 1..5, a RecursiveVerifier with n queued proofs
\* synthesizes successfully and its assignment satisfies the point-addition
\* gate and the batch-verification gate on every enabled row; the run is
\* accepted.
C14_RecursionDepth ==
    (rv.op = "run" /\ Len(rv.circuit.proofs) \in 1..5)
        => LET S == RV_synthesize(rv.circuit)
           IN  /\ S.outcome = "ok"
               /\ PointAdditionHolds(S)
               /\ BatchVerificationHolds(S)
               /\ rv.result = "valid"

\* C15: a RecursiveVerifier holding 16 queued proofs synthesizes without
\* error and is accepted, every proof index i in 0..15 being assigned to an
\* existing advice column.
C15_SixteenProofs ==
    (rv.op = "run" /\ Len(rv.circuit.proofs) = MaxBatch)
        => /\ RV_synthesize(rv.circuit).outcome = "ok"
           /\ \A i \in 0..(MaxBatch - 1) : i < NumAdviceRV
           /\ rv.result = "valid"

\* C16: after a RecursiveVerifier with n queued proofs has been
\* synthesized, its accumulator's proof_count equals n.
C16_ProofCountAfterSynthesize ==
    (rv.op = "synthesize" /\ rv.result = "ok")
        => rv.circuit.accumulator.proof_count = Len(rv.circuit.proofs)

---------------------------------------------------------------------------
(* WitnessCalculator (circuits/dci.rs, mod witness)                        *)
(* The cache is a Vec of (input, witness) pairs behind one mutex.          *)
(* generate_single takes the lock twice: once to scan the cache, and, on a *)
(* miss, once more to push the new pair and limit the size.  The scan is   *)
(* one step (lock, scan, unlock); the second critical section is two       *)
(* steps, so that the state between push and removal, where the mutex is   *)
(* held, is visible.  Each item of a generate_parallel batch is a task     *)
(* that may run concurrently with the others.                              *)

\* The size limit of the cache (1000 in the code), scaled down.
CacheLimit == 2
\* Largest batch passed to generate_parallel.
MaxBatchLen == 2
\* Largest number of generate_single / generate_parallel calls.
MaxCalls == 3

\* input.iter().map(|&x| Value::known(x)).collect()
new_witness(input) == [i \in 1..Len(input) |-> Known(input[i])]

\* A scan that returns the first entry without comparing the inputs.
cache_lookup_first(cache, input) == IF Len(cache) > 0 THEN 1 ELSE 0

\* for (cached_input, cached_witness) in cache.iter(): the index of the
\* first entry whose input equals input, 0 if there is none.
cache_lookup(cache, input) ==
    IF \E k \in 1..Len(cache) : cache[k].input = input
    THEN CHOOSE k \in 1..Len(cache) :
            /\ cache[k].input = input
            /\ \A m \in 1..(k - 1) : cache[m].input # input
    ELSE 0

\* cache.push((input.to_vec(), witness.clone()))
cache_push(cache, input, witness) == Append(cache, [input |-> input, witness |-> witness])

\* A limit that never removes.
limit_never(v) == v

\* A limit that removes the newest entry.
limit_remove_last(v) == IF Len(v) > CacheLimit THEN SubSeq(v, 1, Len(v) - 1) ELSE v

\* if cache.len() > 1000 { cache.remove(0); }  (on the cache, and on the
\* sequence of insertion stamps kept beside it)
limit(v) == IF Len(v) > CacheLimit THEN Tail(v) ELSE v

\* A collect that orders the results by completion.
collect_by_completion(items, order) == [k \in 1..Len(order) |-> items[order[k]].result]

\* inputs.par_iter().map(..).collect(): the result of item j at index j
collect(items, order) == [j \in 1..Len(items) |-> items[j].result]

WitnessInputs == {<<1>>, <<2>>, <<1, 2, 3>>}

Batches == UNION {[1..n -> WitnessInputs] : n \in 0..MaxBatchLen}

NewItems(inputs) == [j \in 1..Len(inputs) |-> [input |-> inputs[j], pc |-> "start", hit |-> FALSE, result |-> <<>>]]

\* WitnessCalculator::new(), no call made
WitnessCalculator_new ==
    [kind |-> "none", cache |-> <<>>, age |-> <<>>, clock |-> 0, mutex |-> 0,
     items |-> <<>>, order |-> <<>>, calls |-> 0, returned |-> TRUE, output |-> <<>>]

InitWC ==
    /\ wc = WitnessCalculator_new
    /\ lastFold = [called |-> FALSE, a |-> NoInstance, b |-> NoInstance, r |-> 0,
                   out |-> NoInstance]
    /\ lastVerify = [called |-> FALSE, proof |-> NoInstance, result |-> FALSE]
    /\ instances = FoldingVerifier_new
    /\ lastFoldAll = [called |-> FALSE, challenges |-> <<>>, before |-> <<>>,
                      result |-> Panicked(<<>>)]
    /\ acc = Accumulator_new
    /\ accCalls = 0
    /\ lastAcc = [called |-> FALSE, pre |-> Accumulator_new, proof_commitment |-> 0,
                  challenge |-> 0]
    /\ dci = [op |-> "none"]
    /\ pore = [op |-> "none"]
    /\ rv = [op |-> "none"]
    /\ ffi = [op |-> "none"]
    /\ gate = [op |-> "none"]

WCOthersUnchanged ==
    UNCHANGED <<lastFold, lastVerify, instances, lastFoldAll, acc, accCalls, lastAcc, dci, pore, rv, ffi, gate>>

\* calculator.generate_single(&input), called when no call is in progress
GenerateSingleCall(input) ==
    /\ wc.returned
    /\ wc.calls < MaxCalls
    /\ wc' = [wc EXCEPT !.kind = "single", !.items = NewItems(<<input>>), !.order = <<>>,
                        !.calls = @ + 1, !.returned = FALSE, !.output = <<>>]
    /\ WCOthersUnchanged

\* calculator.generate_parallel(inputs): one task per input
GenerateParallelCall(inputs) ==
    /\ wc.returned
    /\ wc.calls < MaxCalls
    /\ wc' = [wc EXCEPT !.kind = "parallel", !.items = NewItems(inputs), !.order = <<>>,
                        !.calls = @ + 1, !.returned = FALSE, !.output = <<>>]
    /\ WCOthersUnchanged

\* Task j: lock, scan the cache, unlock.  A hit returns the cached witness;
\* a miss goes on to generate the witness.
CheckCache(j) ==
    /\ ~wc.returned
    /\ wc.items[j].pc = "start"
    /\ wc.mutex = 0
    /\ LET k == cache_lookup(wc.cache, wc.items[j].input)
       IN  IF k # 0
           THEN wc' = [wc EXCEPT !.items[j].pc = "done",
                                 !.items[j].hit = TRUE,
                                 !.items[j].result = wc.cache[k].witness,
                                 !.order = Append(@, j)]
           ELSE wc' = [wc EXCEPT !.items[j].pc = "miss",
                                 !.items[j].result = new_witness(wc.items[j].input)]
    /\ WCOthersUnchanged

\* Task j after a miss: lock and push the new pair.
LockAndPush(j) ==
    /\ ~wc.returned
    /\ wc.items[j].pc = "miss"
    /\ wc.mutex = 0
    /\ wc' = [wc EXCEPT !.mutex = j,
                        !.cache = cache_push(@, wc.items[j].input, wc.items[j].result),
                        !.age = Append(@, wc.clock),
                        !.clock = @ + 1,
                        !.items[j].pc = "pushed"]
    /\ WCOthersUnchanged

\* A slip of the second critical section: the guard is kept after the block,
\* so the task finishes without releasing the mutex.
LimitAndKeepLock(j) ==
    /\ ~wc.returned
    /\ wc.items[j].pc = "pushed"
    /\ wc.mutex = j
    /\ wc' = [wc EXCEPT !.cache = limit(@), !.age = limit(@),
                        !.items[j].pc = "done", !.order = Append(@, j)]
    /\ WCOthersUnchanged

\* Task j, holding the lock: limit the cache size, unlock, return witness.
LimitAndUnlock(j) ==
    /\ ~wc.returned
    /\ wc.items[j].pc = "pushed"
    /\ wc.mutex = j
    /\ wc' = [wc EXCEPT !.cache = limit(@), !.age = limit(@), !.mutex = 0,
                        !.items[j].pc = "done", !.order = Append(@, j)]
    /\ WCOthersUnchanged

\* All tasks are done: the call returns (collect for generate_parallel).
ReturnCall ==
    /\ ~wc.returned
    /\ \A j \in 1..Len(wc.items) : wc.items[j].pc = "done"
    /\ wc' = [wc EXCEPT !.returned = TRUE,
                        !.output = IF wc.kind = "single" THEN wc.items[1].result
                                   ELSE collect(wc.items, wc.order)]
    /\ WCOthersUnchanged

NextWC ==
    \/ \E input \in WitnessInputs : GenerateSingleCall(input)
    \/ \E inputs \in Batches : GenerateParallelCall(inputs)
    \/ \E j \in 1..Len(wc.items) : CheckCache(j)
    \/ \E j \in 1..Len(wc.items) : LockAndPush(j)
    \/ \E j \in 1..Len(wc.items) : LimitAndUnlock(j)
    \/ ReturnCall

SpecWC == InitWC /\ [][NextWC]_vars

\* C17: the witness cache is bounded: whenever the cache mutex is not
\* held, under every interleaving of the tasks, the cache holds at most
\* CacheLimit entries.
C17_CacheBounded == wc.kind # "none" => (wc.mutex = 0 => Len(wc.cache) <= CacheLimit)

\* The cache is full, entries have been evicted and the mutex is free
C17_Witness ==
    /\ wc.kind = "parallel"
    /\ wc.mutex = 0
    /\ Len(wc.cache) = CacheLimit
    /\ wc.clock > CacheLimit

Stamps(age) == {age[k] : k \in 1..Len(age)}

\* C18: eviction is FIFO.  A step removes at most one entry; it removes one
\* exactly when the critical section of a miss ends with the cache above
\* CacheLimit, and the entry removed is the one inserted earliest among
\* those present; a cache hit leaves the cache as it is.
C18_FifoEviction ==
    [][wc.kind # "none" =>
        LET removed == Stamps(wc.age) \ Stamps(wc'.age)
            ends == wc.mutex # 0 /\ wc'.mutex = 0
        IN  /\ Cardinality(removed) <= 1
            /\ (ends /\ Len(wc.cache) > CacheLimit) <=> removed # {}
            /\ \A a \in removed : \A b \in Stamps(wc.age) : a <= b
            /\ removed # {} => /\ wc'.cache = Tail(wc.cache)
                               /\ wc'.age = Tail(wc.age)
            /\ \A j \in 1..Len(wc.items) :
                 (j \in 1..Len(wc'.items) /\ ~wc.items[j].hit /\ wc'.items[j].hit)
                    => wc'.cache = wc.cache /\ wc'.age = wc.age]_vars

\* The entry inserted first has been evicted
C18_Witness ==
    /\ wc.kind # "none"
    /\ wc.mutex = 0
    /\ Len(wc.age) = CacheLimit
    /\ wc.age[1] > 0

\* C19: generate_single is deterministic in its input: whatever the cache
\* holds (hit, miss, after eviction, modified by concurrent tasks), the
\* result has the length of the input and its i-th element is
\* Value::known(input[i]).
C19_GenerateSingleDeterministic ==
    wc.kind # "none" =>
        /\ \A j \in 1..Len(wc.items) :
              wc.items[j].pc = "done" =>
                 /\ Len(wc.items[j].result) = Len(wc.items[j].input)
                 /\ \A i \in 1..Len(wc.items[j].input) :
                       wc.items[j].result[i] = Known(wc.items[j].input[i])
        /\ (wc.kind = "single" /\ wc.returned) => wc.output = new_witness(wc.items[1].input)

\* A generate_single call answered from the cache after an eviction
C19_Witness ==
    /\ wc.kind = "single"
    /\ wc.returned
    /\ wc.items[1].hit
    /\ wc.clock > CacheLimit
    /\ wc.output = <<Known(1), Known(2), Known(3)>>

\* C20: generate_parallel(batch) returns a vector of the length of the
\* batch whose j-th element equals generate_single(batch[j]), under every
\* interleaving of the tasks.
C20_ParallelOrder ==
    (wc.kind = "parallel" /\ wc.returned) =>
        /\ Len(wc.output) = Len(wc.items)
        /\ \A j \in 1..Len(wc.items) : wc.output[j] = new_witness(wc.items[j].input)

\* A batch of two different inputs whose second task finished first
C20_Witness ==
    /\ wc.kind = "parallel"
    /\ wc.returned
    /\ Len(wc.items) = 2
    /\ wc.items[1].input # wc.items[2].input
    /\ wc.order = <<2, 1>>
    /\ Len(wc.output) = 2

---------------------------------------------------------------------------
(* FFI bindings (bindings/src/ffi.rs)                                      *)
(* A pointer is null or points to memory of the caller: output to a buffer *)
(* of *output_len bytes, output_len to a usize.                            *)

\* Largest length of the input and largest capacity of the output buffer.
MaxBufLen == 3

\* zk_proof_create(input, input_len, output, output_len): the return value,
\* the output buffer and *output_len after the call.  Nothing is written.
zk_proof_create(input, input_len, output, output_len) ==
    IF input.null \/ output.null \/ output_len.null
    THEN [ret |-> -1, output |-> output, output_len |-> output_len]
    ELSE [ret |-> 0, output |-> output, output_len |-> output_len]

\* zk_proof_verify(proof, proof_len)
zk_proof_verify(proof, proof_len) == IF proof.null THEN -1 ELSE 0

NullPtr == [null |-> TRUE, mem |-> <<>>]

\* Buffers of bytes, all zero before the call
BytePtrs == {NullPtr} \cup {[null |-> FALSE, mem |-> [i \in 1..n |-> 0]] : n \in 0..MaxBufLen}

UsizePtrs == {NullPtr} \cup {[null |-> FALSE, mem |-> <<n>>] : n \in 0..MaxBufLen}

InitFFI ==
    /\ ffi \in [op : {"none"}, input : BytePtrs, input_len : 0..MaxBufLen, output : BytePtrs,
                output_len : UsizePtrs, result : {"none"}]
    /\ lastFold = [called |-> FALSE, a |-> NoInstance, b |-> NoInstance, r |-> 0,
                   out |-> NoInstance]
    /\ lastVerify = [called |-> FALSE, proof |-> NoInstance, result |-> FALSE]
    /\ instances = FoldingVerifier_new
    /\ lastFoldAll = [called |-> FALSE, challenges |-> <<>>, before |-> <<>>,
                      result |-> Panicked(<<>>)]
    /\ acc = Accumulator_new
    /\ accCalls = 0
    /\ lastAcc = [called |-> FALSE, pre |-> Accumulator_new, proof_commitment |-> 0,
                  challenge |-> 0]
    /\ dci = [op |-> "none"]
    /\ pore = [op |-> "none"]
    /\ rv = [op |-> "none"]
    /\ wc = [kind |-> "none"]
    /\ gate = [op |-> "none"]

\* A caller that passes consistent arguments: input_len is the length of the
\* input buffer and *output_len the capacity of the output buffer.
WellFormedCall ==
    /\ ffi.input.null \/ Len(ffi.input.mem) = ffi.input_len
    /\ (~ffi.output.null /\ ~ffi.output_len.null) => ffi.output_len.mem[1] = Len(ffi.output.mem)

ZkProofCreateCall ==
    /\ ffi.op = "none"
    /\ WellFormedCall
    /\ ffi' = [ffi EXCEPT !.op = "create",
                          !.result = zk_proof_create(ffi.input, ffi.input_len, ffi.output,
                                                     ffi.output_len)]
    /\ UNCHANGED <<lastFold, lastVerify, instances, lastFoldAll, acc, accCalls, lastAcc, dci, pore, rv, wc, gate>>

ZkProofVerifyCall ==
    /\ ffi.op = "none"
    /\ WellFormedCall
    /\ ffi' = [ffi EXCEPT !.op = "verify",
                          !.result = [ret |-> zk_proof_verify(ffi.input, ffi.input_len)]]
    /\ UNCHANGED <<lastFold, lastVerify, instances, lastFoldAll, acc, accCalls, lastAcc, dci, pore, rv, wc, gate>>

NextFFI == ZkProofCreateCall \/ ZkProofVerifyCall

SpecFFI == InitFFI /\ [][NextFFI]_vars

\* C21: zk_proof_create returns -1 whenever input, output or output_len is
\* null or the output buffer is too small to hold the proof (a buffer of no
\* bytes holds no proof), and returns 0 only on success: a proof of
\* *output_len bytes, at least one, has been written into the buffer.
C21_CreateReturnCode ==
    ffi.op = "create" =>
        /\ (ffi.input.null \/ ffi.output.null \/ ffi.output_len.null) => ffi.result.ret = -1
        /\ (~ffi.output.null /\ Len(ffi.output.mem) = 0) => ffi.result.ret = -1
        /\ ffi.result.ret = 0 =>
              /\ ffi.result.output_len.mem[1] \in 1..Len(ffi.output.mem)
              /\ ffi.result.output # ffi.output

---------------------------------------------------------------------------
(* Further properties                                                      *)

\* C22: fold requires witness vectors of equal length: whenever fold has
\* returned an instance, the two witness vectors had the same length and
\* the folded witness has an entry for every index of either input.
C22_FoldEqualLength ==
    lastFold.called =>
        /\ Len(lastFold.a.w) = Len(lastFold.b.w)
        /\ \A i \in 1..Len(lastFold.a.w) : i \in DOMAIN lastFold.out.w
        /\ \A i \in 1..Len(lastFold.b.w) : i \in DOMAIN lastFold.out.w

---------------------------------------------------------------------------
(* The gates of RecursionConfig evaluated on one row with given cells      *)

\* An assignment of one row: the enabled selectors and advice[0..15].
OneRow(sels, values) ==
    [outcome |-> "ok",
     sels |-> {[sel |-> x, row |-> 0] : x \in sels},
     cells |-> {[col |-> c, row |-> 0, val |-> values[c + 1]] : c \in 0..(NumAdviceRV - 1)},
     rows |-> {0}]

\* a / b in the ring, for a unit b
F_div(a, b) == CHOOSE q \in 0..(FieldModulus - 1) : F_mul(q, b) = a

\* b has an inverse; in the field this is b # 0.
Invertible(b) == \E q \in 0..(FieldModulus - 1) : F_mul(q, b) = F_one

\* lambda, x3 and y3 of the chord through (x1, y1) and (x2, y2)
Slope(x1, y1, x2, y2) == F_div(F_sub(y2, y1), F_sub(x2, x1))
ChordX(lambda, x1, x2) == F_sub(F_sub(F_mul(lambda, lambda), x1), x2)
ChordY(lambda, x1, y1, x3) == F_sub(F_mul(lambda, F_sub(x1, x3)), y1)

ZeroTail == [c \in 1..(NumAdviceRV - 7) |-> 0]

\* Rows for the point-addition gate: two points with x in {2, 7} (a
\* difference of 0 or of +-5), a slope that is the chord's or not, and an
\* output point whose coordinates are those of the chord formulas or not.
Lambdas(x1, y1, x2, y2) == {0, 1, 2} \cup (IF x1 # x2 THEN {Slope(x1, y1, x2, y2)} ELSE {})

RowsFor(x1, y1, x2, y2, lambda) ==
    UNION {{<<x1, y1, x2, y2, x3, y3, lambda>> \o ZeroTail :
                y3 \in {ChordY(lambda, x1, y1, x3), 0, 5}} :
           x3 \in {ChordX(lambda, x1, x2), 0, 4}}

PointAdditionRows ==
    UNION {UNION {RowsFor(p[1], p[2], p[3], p[4], lambda) :
                    lambda \in Lambdas(p[1], p[2], p[3], p[4])} :
           p \in {2, 7} \X {0, 1, 3} \X {2, 7} \X {0, 1, 3}}

\* Rows for the batch gate: advice[0..3] over {0, 1, -1}, and one more
\* pair of neighbours further right.
BatchRows ==
    {[c \in 1..NumAdviceRV |->
        IF c <= 4 THEN head[c] ELSE IF c = k THEN pair[1] ELSE IF c = k + 1 THEN pair[2] ELSE 0] :
        head \in [1..4 -> {0, 1, FieldModulus - 1}], k \in {6, NumAdviceRV - 1},
        pair \in [1..2 -> {0, 1}]}

InitGate ==
    /\ gate \in [op : {"none"}, sels : {{}, {"s_add"}, {"s_acc"}},
                 values : PointAdditionRows \cup BatchRows, result : {<<>>}]
    /\ lastFold = [called |-> FALSE, a |-> NoInstance, b |-> NoInstance, r |-> 0,
                   out |-> NoInstance]
    /\ lastVerify = [called |-> FALSE, proof |-> NoInstance, result |-> FALSE]
    /\ instances = FoldingVerifier_new
    /\ lastFoldAll = [called |-> FALSE, challenges |-> <<>>, before |-> <<>>,
                      result |-> Panicked(<<>>)]
    /\ acc = Accumulator_new
    /\ accCalls = 0
    /\ lastAcc = [called |-> FALSE, pre |-> Accumulator_new, proof_commitment |-> 0,
                  challenge |-> 0]
    /\ dci = [op |-> "none"]
    /\ pore = [op |-> "none"]
    /\ rv = [op |-> "none"]
    /\ wc = [kind |-> "none"]
    /\ ffi = [op |-> "none"]

GateOthersUnchanged ==
    UNCHANGED <<lastFold, lastVerify, instances, lastFoldAll, acc, accCalls, lastAcc, dci, pore, rv, wc, ffi>>

\* The polynomials of gate "ec point addition" on the row
PointAdditionCheck ==
    /\ gate.op = "none"
    /\ gate' = [gate EXCEPT !.op = "ec_point_addition",
                            !.result = ec_point_addition(OneRow(gate.sels, gate.values), 0)]
    /\ GateOthersUnchanged

\* The polynomials of gate "endomorphism" on the row
EndomorphismCheck ==
    /\ gate.op = "none"
    /\ gate' = [gate EXCEPT !.op = "endomorphism",
                            !.result = endomorphism(OneRow(gate.sels, gate.values), 0)]
    /\ GateOthersUnchanged

\* The polynomials of gate "batch verification" on the row
BatchVerificationCheck ==
    /\ gate.op = "none"
    /\ gate' = [gate EXCEPT !.op = "batch_verification",
                            !.result = batch_verification(OneRow(gate.sels, gate.values), 0)]
    /\ GateOthersUnchanged

NextGate == PointAdditionCheck \/ EndomorphismCheck \/ BatchVerificationCheck

SpecGate == InitGate /\ [][NextGate]_vars

\* C23: on a row where s_add is enabled and x2 - x1 has an inverse (in the
\* field: x1 # x2), the point-addition
\* gate is satisfied if and only if lambda = (y2 - y1)/(x2 - x1),
\* x3 = lambda^2 - x1 - x2 and y3 = lambda * (x1 - x3) - y1.  When x1 = x2
\* and y1 = y2 it is satisfied for every lambda, with x3 and y3 following
\* lambda, so two slopes give two accepted output points.
C23_PointAdditionGate ==
    (gate.op = "ec_point_addition" /\ "s_add" \in gate.sels) =>
        LET x1 == gate.values[1]
            y1 == gate.values[2]
            x2 == gate.values[3]
            y2 == gate.values[4]
            x3 == gate.values[5]
            y3 == gate.values[6]
            lambda == gate.values[7]
            satisfied == AllZero(gate.result)
            follows == x3 = ChordX(lambda, x1, x2) /\ y3 = ChordY(lambda, x1, y1, x3)
            Accepted(l) ==
                AllZero(ec_point_addition(
                    OneRow({"s_add"},
                           <<x1, y1, x2, y2, ChordX(l, x1, x2),
                             ChordY(l, x1, y1, ChordX(l, x1, x2)), l>> \o ZeroTail), 0))
        IN  /\ Invertible(F_sub(x2, x1)) =>
                  (satisfied <=> (lambda = Slope(x1, y1, x2, y2) /\ follows))
            /\ (x1 = x2 /\ y1 = y2) =>
                  /\ satisfied <=> follows
                  /\ \A l \in {0, 1, 2} : Accepted(l)
                  /\ \E l \in {0, 1, 2} : \E m \in {0, 1, 2} :
                        ChordX(l, x1, x2) # ChordX(m, x1, x2)

\* The gate is satisfied on a row with x1 # x2 and a slope other than 0
C23_Witness ==
    /\ gate.op = "ec_point_addition"
    /\ "s_add" \in gate.sels
    /\ gate.values[1] # gate.values[3]
    /\ gate.values[7] \notin {0, 1, 2}
    /\ AllZero(gate.result)

\* C29: on a row where s_acc is enabled the batch-verification gate has one
\* polynomial per i in 0..13, the product advice[i] * advice[i+1] (the
\* second factor of term i is the first factor of term i+1), and it is
\* satisfied if and only if each of the 14 products is zero separately.
C29_BatchGateProducts ==
    (gate.op = "batch_verification" /\ "s_acc" \in gate.sels) =>
        /\ Len(gate.result) = NumAdviceRV - 1
        /\ \A i \in 0..(NumAdviceRV - 2) :
              gate.result[i + 1] = F_mul(gate.values[i + 1], gate.values[i + 2])
        /\ AllZero(gate.result) <=>
              \A i \in 0..(NumAdviceRV - 2) : F_mul(gate.values[i + 1], gate.values[i + 2]) = F_zero

\* A row whose products sum to zero while two of them are not zero: the
\* gate is not satisfied
C29_Witness ==
    /\ gate.op = "batch_verification"
    /\ "s_acc" \in gate.sels
    /\ SumProducts(OneRow(gate.sels, gate.values), 0, NumAdviceRV - 2) = F_zero
    /\ ~AllZero(gate.result)

\* C24: PoRE synthesize copy-constrains row 0 of advice[0], advice[1] and
\* advice[2] to row 0 of instance columns 0, 1 and 2 for every circuit,
\* whatever the number of public_inputs, so a circuit whose first three
\* witnesses differ from the supplied instance values is not accepted.
C24_PoRECopyConstraints ==
    (/\ pore.op = "run"
     /\ Len(pore.circuit.witnesses) >= NumInstancePoRE
     /\ PoRE_synthesize(pore.circuit).outcome = "ok")
        => /\ PoRE_synthesize(pore.circuit).copies = 0..(NumInstancePoRE - 1)
           /\ (\E i \in 1..NumInstancePoRE : pore.circuit.witnesses[i].v # pore.instance[i])
                 => pore.result # "valid"

\* C25: a DCI circuit whose nullifier is known and whose other witnesses
\* are left at their defaults is accepted, and the nullifier lookup is
\* satisfied on the row where s_nullifier is enabled.
C25_DefaultCircuitWithNullifier ==
    (/\ dci.op = "run"
     /\ dci.circuit.nullifier.known
     /\ ~dci.circuit.leaf.known
     /\ dci.circuit.merkle_path = UnknownVec
     /\ dci.circuit.path_directions = UnknownVec
     /\ ~dci.circuit.balance.known)
        => LET S == synthesize(dci.circuit)
           IN  /\ \E row \in Rows(S.L) : Sel(S.L, "s_nullifier", row) = 1
               /\ NullifierLookupHolds(S.L, S.nullifier_table)
               /\ dci.result = "valid"

\* C26: the witness cache never holds two entries with the same input,
\* after any sequence of generate_single calls and under every
\* interleaving of the tasks of generate_parallel.
C26_NoDuplicateKeys ==
    wc.kind # "none" =>
        \A k \in 1..Len(wc.cache) : \A m \in 1..Len(wc.cache) :
            wc.cache[k].input = wc.cache[m].input => k = m


---------------------------------------------------------------------------
(* Accumulation order                                                      *)

\* The accumulator after accumulating (c1, r1) and then (c2, r2) from `self`.
AccumulateBoth(self, c1, r1, c2, r2) ==
    accumulate(accumulate(self, c1, r1), c2, r2)

\* C27: from every accumulator state reached by accumulate calls, and for
\* every two pairs (c1, r1), (c2, r2), accumulating them in either order
\* gives the same commitment, the same challenge and the same proof_count;
\* acc_vec ends with the two challenges in call order, so the two orders
\* give different acc_vec exactly when r1 # r2.
C27_OrderAffectsOnlyAccVec ==
    \A c1 \in Commitments, c2 \in Commitments,
       r1 \in AccChallenges, r2 \in AccChallenges :
        LET ab == AccumulateBoth(acc, c1, r1, c2, r2)
            ba == AccumulateBoth(acc, c2, r2, c1, r1)
        IN  /\ ab.commitment = ba.commitment
            /\ ab.challenge = ba.challenge
            /\ ab.proof_count = ba.proof_count
            /\ ab.acc_vec = acc.acc_vec \o <<r1, r2>>
            /\ ba.acc_vec = acc.acc_vec \o <<r2, r1>>
            /\ (r1 # r2 => ab.acc_vec # ba.acc_vec)

\* Two pairs with different commitments and different non-zero challenges
\* have been accumulated, in this order, on top of an earlier call; the other
\* order would have reached the same commitment with another acc_vec.
C27_Witness ==
    /\ lastAcc.called
    /\ accCalls = 3
    /\ \E c1 \in Commitments, r1 \in AccChallenges :
        /\ c1 # lastAcc.proof_commitment
        /\ r1 # lastAcc.challenge
        /\ r1 # 0 /\ lastAcc.challenge # 0
        /\ lastAcc.pre.proof_count = 2
        /\ lastAcc.pre.acc_vec[2] = r1
        /\ \E self \in {[commitment |-> F_sub(lastAcc.pre.commitment, F_mul(c1, r1)),
                         challenge |-> F_sub(lastAcc.pre.challenge, r1),
                         acc_vec |-> SubSeq(lastAcc.pre.acc_vec, 1, 1),
                         proof_count |-> 1]} :
            /\ accumulate(self, c1, r1) = lastAcc.pre
            /\ acc = AccumulateBoth(self, c1, r1, lastAcc.proof_commitment, lastAcc.challenge)
            /\ AccumulateBoth(self, lastAcc.proof_commitment, lastAcc.challenge, c1, r1).commitment
                   = acc.commitment
            /\ AccumulateBoth(self, lastAcc.proof_commitment, lastAcc.challenge, c1, r1).acc_vec
                   # acc.acc_vec

---------------------------------------------------------------------------
(* The Merkle levels of DCICircuit::synthesize                             *)

\* leaf + merkle_path[1] + ... + merkle_path[i], in the field.
RECURSIVE PathSum(_, _)
PathSum(circuit, i) ==
    IF i = 0 THEN circuit.leaf.v
    ELSE F_add(PathSum(circuit, i - 1), circuit.merkle_path[i].v)

\* The number of pairs the zip of merkle_path and path_directions yields.
Levels(circuit) == Min(Len(circuit.merkle_path), Len(circuit.path_directions))

\* The leaf and the values of the zipped levels are known.
MerkleKnown(circuit) ==
    /\ circuit.leaf.known
    /\ \A i \in 1..Levels(circuit) :
        circuit.merkle_path[i].known /\ circuit.path_directions[i].known

\* Known direction vectors of the length of the circuit's own.
OtherDirections(circuit) ==
    {d \in {c.path_directions : c \in DCICircuits} :
        /\ Len(d) = Len(circuit.path_directions)
        /\ \A i \in 1..Len(d) : d[i].known}

\* C28: when synthesize has run on a circuit whose leaf and zipped levels
\* are known, it produced min(len(merkle_path), len(path_directions)) hash
\* cells; the cell of level i (advice[0], row i) holds
\* leaf + merkle_path[1] + ... + merkle_path[i]; and the value derived after
\* the last level is the same for every other known direction vector.
C28_AdditiveMerkleHash ==
    (dci.op = "synthesize" /\ MerkleKnown(dci.circuit)) =>
        LET S == synthesize(dci.circuit)
            n == Levels(dci.circuit)
        IN  /\ Len(S.hashes) = n
            /\ \A i \in 1..n :
                /\ S.hashes[i] = PathSum(dci.circuit, i)
                /\ Cell(S.L, 0, i) = PathSum(dci.circuit, i)
            /\ DerivedRoot(dci.circuit) = PathSum(dci.circuit, n)
            /\ \A d \in OtherDirections(dci.circuit) :
                DerivedRoot([dci.circuit EXCEPT !.path_directions = d])
                    = DerivedRoot(dci.circuit)

\* synthesize has run on leaf = 42, siblings 0..19 and alternating directions:
\* 20 hash cells, the last one 42 + 190 = 232, and the vector whose first
\* direction is 2 derives the same value.
C28_Witness ==
    /\ dci.op = "synthesize"
    /\ dci.circuit.leaf = Known(42)
    /\ dci.circuit.merkle_path = [i \in 1..Depth |-> Known(F_from(i - 1))]
    /\ dci.circuit.path_directions = [i \in 1..Depth |-> Known((i - 1) % 2)]
    /\ Len(synthesize(dci.circuit).hashes) = Depth
    /\ Cell(synthesize(dci.circuit).L, 0, Depth) = 232
    /\ DerivedRoot([dci.circuit EXCEPT
                       !.path_directions = [i \in 1..Depth |-> Known(IF i = 1 THEN 2 ELSE 0)]])
           = 232

---------------------------------------------------------------------------
(* Termination of generate_parallel under fair scheduling                  *)

\* One step of worker j of the call in progress.
TaskStep(j) ==
    /\ j \in 1..Len(wc.items)
    /\ (CheckCache(j) \/ LockAndPush(j) \/ LimitAndUnlock(j))

\* The scheduler runs every worker that can take a step (a worker waiting
\* for the mutex can take its step whenever the mutex is free), and the
\* caller resumes once every worker has finished.  Calls themselves are
\* left to the environment.
SpecWCFair ==
    /\ InitWC
    /\ [][NextWC]_vars
    /\ \A j \in 1..MaxBatchLen : WF_vars(TaskStep(j))
    /\ WF_vars(ReturnCall)

\* A generate_parallel call is in progress.
ParallelInProgress == wc.kind = "parallel" /\ ~wc.returned

\* The call has returned: every worker finished and the mutex is free.
ParallelReturned ==
    /\ wc.kind = "parallel"
    /\ wc.returned
    /\ \A j \in 1..Len(wc.items) : wc.items[j].pc = "done"
    /\ Len(wc.output) = Len(wc.items)
    /\ wc.mutex = 0

\* The mutex is held only by a worker inside its insert-and-evict section.
MutexHeldInSection ==
    wc.mutex # 0 =>
        /\ wc.mutex \in 1..Len(wc.items)
        /\ wc.items[wc.mutex].pc = "pushed"

\* The mutex changes hands only through the free state: it is never taken
\* while held.
MutexNeverRetaken ==
    wc'.mutex # wc.mutex => (wc.mutex = 0 \/ wc'.mutex = 0)

\* C30: under fair scheduling every generate_parallel call in progress
\* returns with every worker finished and the mutex free; the mutex is held
\* only between a worker's push and its eviction, and is never taken while
\* it is held.
C30_ParallelTerminates ==
    /\ ParallelInProgress ~> ParallelReturned
    /\ []MutexHeldInSection
    /\ [][MutexNeverRetaken]_vars

\* A generate_parallel call of two workers, one holding the mutex inside its
\* insert-and-evict section while the other, after a miss, waits for it.
C30_Witness ==
    /\ ParallelInProgress
    /\ Len(wc.items) = 2
    /\ wc.mutex # 0
    /\ \E j \in 1..2 : j # wc.mutex /\ wc.items[j].pc = "miss"
=============================================================================
